---- MODULE Spec2Model ----
(***************************************************************************)
(* Model of the extended finite state machine engine of src/lib.rs: the    *)
(* transition table, the entry/exit table, the event queue and the wave    *)
(* processing of process_event_queue.  The state/event/argument types are  *)
(* the instantiation used by the crate's own tests (the coin still).       *)
(***************************************************************************)
EXTENDS Integers, Sequences, FiniteSets, TLC

\* ------------------------------------------------------------------ bounds
MaxQueue == 3
MaxBatch == 2
MaxCount == 1

\* ------------------------------------------------------------- type universe
StillStates == {"ClosedWaitForMoney", "CheckingMoney", "OpenWaitForTimeOut"}
StillEvents == {"GotCoin", "AcceptMoney", "RejectMoney", "Timeout"}
NoArg == "None"
StillArguments == {NoArg, "Good", "Bad"}
EntryTransition == "EntryTransition"
ExitTransition == "ExitTransition"
EntryExit == {EntryTransition, ExitTransition}

\* enum Errors
ErrOK == <<"OK">>
InternalError(e, s, c) == <<"InternalError", e, s, c>>
NoTransition(e, s) == <<"NoTransition", e, s>>
TransitionFailure == <<"TransitionFailure">>

\* TransitionResult = Result<Option<EventQueue>, Errors>
FnOk(evs) == [ok |-> TRUE, some |-> TRUE, events |-> evs, err |-> ErrOK]
FnOkNone == [ok |-> TRUE, some |-> FALSE, events |-> <<>>, err |-> ErrOK]
FnErr(v) == [ok |-> FALSE, some |-> FALSE, events |-> <<>>, err |-> v]

\* Result<u32, Errors> of add_events and process_event_queue
Ok(n) == [ok |-> TRUE, n |-> n, err |-> ErrOK]
Err(v) == [ok |-> FALSE, n |-> 0, err |-> v]
NoResult == [ok |-> TRUE, n |-> 0, err |-> ErrOK]

StillExtState == [coincounter : Nat, opened : Nat, closed : Nat]

\* ------------------------------------------------- application closures
\* Transition closures: the ones of build_fsm, plus closures that fail.
\* Each yields the extended state it leaves behind and its TransitionResult.
TransitionFn(f, ext, ev, arg) ==
  CASE f = "check_money" ->
         [ext |-> ext,
          res |-> IF arg = NoArg
                    THEN FnErr(InternalError("GotCoin", "ClosedWaitForMoney",
                                             "CoinArgumentMissing"))
                    ELSE IF arg = "Good"
                           THEN FnOk(<< <<"AcceptMoney", NoArg>> >>)
                           ELSE FnOk(<< <<"RejectMoney", NoArg>> >>)]
    [] f = "ok_none" -> [ext |-> ext, res |-> FnOkNone]
    [] f = "accepted" ->
         [ext |-> [ext EXCEPT !.coincounter = @ + 1], res |-> FnOkNone]
    [] f = "reject" ->
         [ext |-> ext, res |-> FnOk(<< <<"RejectMoney", NoArg>> >>)]
    [] f = "count_fail" ->
         [ext |-> [ext EXCEPT !.coincounter = @ + 1],
          res |-> IF ext.closed = 0
                    THEN FnErr(TransitionFailure)
                    ELSE FnErr(NoTransition("GotCoin", "ClosedWaitForMoney"))]
    [] f = "err_ok" -> [ext |-> ext, res |-> FnErr(ErrOK)]

\* Entry/exit closures: the ones of build_fsm, plus closures that emit or fail.
EntryExitTransitionFn(f, ext) ==
  CASE f = "CountOpens" ->
         [ext |-> [ext EXCEPT !.opened = @ + 1], res |-> FnOkNone]
    [] f = "CountClose" ->
         [ext |-> [ext EXCEPT !.closed = @ + 1], res |-> FnOkNone]
    [] f = "count_emit" ->
         [ext |-> [ext EXCEPT !.closed = @ + 1],
          res |-> FnOk(<< <<"AcceptMoney", NoArg>> >>)]
    [] f = "emit" ->
         [ext |-> ext, res |-> FnOk(<< <<"GotCoin", "Good">> >>)]
    [] f = "hook_fail" ->
         [ext |-> ext,
          res |-> IF ext.closed > 0
                    THEN FnErr(TransitionFailure)
                    ELSE IF ext.coincounter > 0
                           THEN FnErr(NoTransition("Timeout", "OpenWaitForTimeOut"))
                           ELSE FnErr(InternalError("Timeout", "OpenWaitForTimeOut",
                                                    "CoinArgumentMissing"))]
    [] f = "hook_err_ok" -> [ext |-> ext, res |-> FnErr(ErrOK)]

\* --------------------------------------------------------- caller inputs
TransitionSource(state, event) == <<state, event>>
TransitionTarget(endstate, transfn, name) ==
  [endstate |-> endstate, transfn |-> transfn, name |-> name]

\* the add_transition calls the caller may make
TransitionInputs ==
  { <<TransitionSource("ClosedWaitForMoney", "GotCoin"),
      TransitionTarget("CheckingMoney", "check_money", "ProcessCoin")>>,
    <<TransitionSource("ClosedWaitForMoney", "GotCoin"),
      TransitionTarget("OpenWaitForTimeOut", "count_fail", "Broken")>>,
    <<TransitionSource("ClosedWaitForMoney", "AcceptMoney"),
      TransitionTarget("ClosedWaitForMoney", "ok_none", "Ignore")>>,
    <<TransitionSource("CheckingMoney", "AcceptMoney"),
      TransitionTarget("OpenWaitForTimeOut", "accepted", "Accepted")>>,
    <<TransitionSource("CheckingMoney", "AcceptMoney"),
      TransitionTarget("OpenWaitForTimeOut", "err_ok", "Nothing")>> }

\* the add_enter_transition calls the caller may make
EntryExitInputs ==
  { << <<"ClosedWaitForMoney", ExitTransition>>, "count_emit", "CountEmit">>,
    << <<"ClosedWaitForMoney", ExitTransition>>, "hook_fail", "Fail">>,
    << <<"ClosedWaitForMoney", ExitTransition>>, "hook_err_ok", "Nothing">>,
    << <<"CheckingMoney", EntryTransition>>, "emit", "Emit">>,
    << <<"OpenWaitForTimeOut", EntryTransition>>, "hook_fail", "Fail">> }

\* the (event, argument) pairs the caller may enqueue
EventInputs ==
  { <<"GotCoin", "Good">>, <<"AcceptMoney", NoArg>> }

\* mutant: the still answers a rejected coin in OpenWaitForTimeOut by
\* rejecting again
build_fsm_transitions_looping ==
  { <<TransitionSource("ClosedWaitForMoney", "GotCoin"),
      TransitionTarget("CheckingMoney", "check_money", "ProcessCoin")>>,
    <<TransitionSource("CheckingMoney", "RejectMoney"),
      TransitionTarget("ClosedWaitForMoney", "ok_none", "Rejected")>>,
    <<TransitionSource("CheckingMoney", "GotCoin"),
      TransitionTarget("CheckingMoney", "ok_none", "IgnoreAnotherCoin")>>,
    <<TransitionSource("CheckingMoney", "AcceptMoney"),
      TransitionTarget("OpenWaitForTimeOut", "accepted", "Accepted")>>,
    <<TransitionSource("OpenWaitForTimeOut", "GotCoin"),
      TransitionTarget("OpenWaitForTimeOut", "reject", "Reject")>>,
    <<TransitionSource("OpenWaitForTimeOut", "RejectMoney"),
      TransitionTarget("OpenWaitForTimeOut", "reject", "Rejected")>>,
    <<TransitionSource("OpenWaitForTimeOut", "Timeout"),
      TransitionTarget("ClosedWaitForMoney", "ok_none", "TimeOut")>> }

\* fn build_fsm: the transition table of the coin still
build_fsm_transitions ==
  { <<TransitionSource("ClosedWaitForMoney", "GotCoin"),
      TransitionTarget("CheckingMoney", "check_money", "ProcessCoin")>>,
    <<TransitionSource("CheckingMoney", "RejectMoney"),
      TransitionTarget("ClosedWaitForMoney", "ok_none", "Rejected")>>,
    <<TransitionSource("CheckingMoney", "GotCoin"),
      TransitionTarget("CheckingMoney", "ok_none", "IgnoreAnotherCoin")>>,
    <<TransitionSource("CheckingMoney", "AcceptMoney"),
      TransitionTarget("OpenWaitForTimeOut", "accepted", "Accepted")>>,
    <<TransitionSource("OpenWaitForTimeOut", "GotCoin"),
      TransitionTarget("OpenWaitForTimeOut", "reject", "Reject")>>,
    <<TransitionSource("OpenWaitForTimeOut", "RejectMoney"),
      TransitionTarget("OpenWaitForTimeOut", "ok_none", "Rejected")>>,
    <<TransitionSource("OpenWaitForTimeOut", "Timeout"),
      TransitionTarget("ClosedWaitForMoney", "ok_none", "TimeOut")>> }

\* fn build_fsm: the entry/exit table of the coin still
build_fsm_statetransitions ==
  { << <<"OpenWaitForTimeOut", EntryTransition>>, <<"CountOpens", "CountOpens">> >>,
    << <<"OpenWaitForTimeOut", ExitTransition>>, <<"CountClose", "CountClose">> >> }

\* the (event, argument) pairs a caller of the coin still may enqueue
CoinEventInputs ==
  { <<"GotCoin", NoArg>>, <<"GotCoin", "Good">>, <<"GotCoin", "Bad">>,
    <<"AcceptMoney", NoArg>>, <<"RejectMoney", NoArg>>, <<"Timeout", NoArg>> }

\* the events coin_machine_test enqueues: four coins, then the timeout
TestCoins ==
  << <<"GotCoin", "Good">>, <<"GotCoin", "Bad">>,
     <<"GotCoin", "Good">>, <<"GotCoin", "Good">> >>
TestTimeout == << <<"Timeout", NoArg>> >>

RECURSIVE SeqsUpTo(_, _)
SeqsUpTo(S, n) ==
  IF n = 0 THEN { <<>> }
  ELSE LET shorter == SeqsUpTo(S, n - 1)
       IN shorter \cup { Append(s, x) : s \in shorter, x \in S }

\* ------------------------------------------------------------------ state
VARIABLES
  current_state,     \* FSM.current_state
  extended_state,    \* FSM.extended_state
  event_queue,       \* FSM.event_queue
  transitions,       \* FSM.transitions, a set of <<key, value>> pairs
  statetransitions,  \* FSM.statetransitions, a set of <<key, value>> pairs
  lastop,            \* the operation that produced this state
  inserted,          \* return value of the last registration
  result,            \* return value of the last add_events / process_event_queue
  wave,              \* the events the last process_event_queue captured (evs)
  steps,             \* per event the last process_event_queue handled: the
                     \* running state and the table lookup it made
  trace,             \* closures invoked by the last process_event_queue, in order
  before,            \* current_state, extended_state, event_queue when the
                     \* last operation was called
  registered,        \* the most recent registration made under each key
  given,             \* the arguments of the last add_events or dotfile
  borrows,           \* the borrow_mut calls of the last process_event_queue, each
                     \* with the number of borrows outstanding when it was made
  dotgraph,          \* FSM.dotgraph
  rendered,          \* how the last dotfile call ended
  script             \* how far the calls made on a coin still have followed
                     \* coin_machine_test and the coin paths of the spec

vars == <<current_state, extended_state, event_queue, transitions,
          statetransitions, lastop, inserted, result, wave, steps, trace, before,
          registered, given, borrows, dotgraph, rendered, script>>

\* ------------------------------------------------------------ HashMap
Keys(map) == { p[1] : p \in map }
HashMapGet(map, k) == { p[2] : p \in { q \in map : q[1] = k } }
Value(map, k) == CHOOSE v \in HashMapGet(map, k) : TRUE
\* mutant: the entry is added next to the one already under the key
HashMapInsertKeep(map, k, v) ==
  [map |-> map \cup { <<k, v>> }, old |-> HashMapGet(map, k)]

\* HashMap::insert: the new map and the Option of the value it replaced
HashMapInsert(map, k, v) ==
  [map |-> { p \in map : p[1] # k } \cup { <<k, v>> },
   old |-> HashMapGet(map, k)]
IsNone(opt) == opt = {}

\* ------------------------------------------------------------ DotGraph
\* DotGraph::default() with the start state FSM::new records in it; the
\* maps are sets of <<key, value>> pairs.  The Uuid of a node only names it
\* in the output and is left out.
DotGraphDefault(start_state) ==
  [nodes |-> {}, edges |-> {}, start_state |-> start_state]

\* ------------------------------------------------ the coin still's runs
\* the machine is the one build_fsm returns
IsCoinStill ==
  /\ transitions = build_fsm_transitions
  /\ statetransitions = build_fsm_statetransitions

Off == [test |-> "off", good |-> "off", badcoin |-> "off", drains |-> 0]
Fresh == [Off EXCEPT !.test = "fresh"]

\* coin_machine_test from its second build_fsm on: enqueue the four coins,
\* process while events_pending, enqueue Timeout, process while events_pending
FollowTest(p, op, arg, qafter) ==
  CASE p = "fresh" /\ op = "add_events" /\ arg = TestCoins -> "coins"
    [] p = "coins" /\ op = "process_event_queue" ->
         IF Len(qafter) > 0 THEN "coins" ELSE "drained"
    [] p = "drained" /\ op = "add_events" /\ arg = TestTimeout -> "timeout"
    [] p = "timeout" /\ op = "process_event_queue" ->
         IF Len(qafter) > 0 THEN "timeout" ELSE "done"
    [] OTHER -> "off"

\* the good-coin path: in Closed with an empty queue enqueue GotCoin(good),
\* process, process, enqueue Timeout, process
FollowGood(p, op, arg, cur, q) ==
  CASE /\ op = "add_events" /\ arg = << <<"GotCoin", "Good">> >>
       /\ cur = "ClosedWaitForMoney" /\ q = <<>> -> "coin"
    [] p = "coin" /\ op = "process_event_queue" -> "checking"
    [] p = "checking" /\ op = "process_event_queue" -> "open"
    [] p = "open" /\ op = "add_events" /\ arg = TestTimeout -> "timeout"
    [] p = "timeout" /\ op = "process_event_queue" -> "closed"
    [] OTHER -> "off"

\* the bad-coin path: in ClosedWaitForMoney with an empty queue enqueue
\* GotCoin(bad), process, process
FollowBad(p, op, arg, cur, q) ==
  CASE /\ op = "add_events" /\ arg = << <<"GotCoin", "Bad">> >>
       /\ cur = "ClosedWaitForMoney" /\ q = <<>> -> "coin"
    [] p = "coin" /\ op = "process_event_queue" -> "checked"
    [] p = "checked" /\ op = "process_event_queue" -> "back"
    [] OTHER -> "off"

\* `while still_fsm.events_pending() { still_fsm.process_event_queue() }`:
\* the calls of the loop made so far since the caller last enqueued; a call
\* on an empty queue is none of the loop's, and the count stops past three
FollowDrain(n, op, q) ==
  IF op = "add_events" THEN 0
  ELSE IF Len(q) > 0 /\ n < 3 THEN n + 1 ELSE n

\* script after the call op(arg) made in state cur with queue q, which left
\* the queue qafter
Follow(op, arg, qafter) ==
  IF ~IsCoinStill THEN Off
  ELSE [drains |-> FollowDrain(script.drains, op, event_queue),
        test |-> FollowTest(script.test, op, arg, qafter),
        good |-> FollowGood(script.good, op, arg, current_state, event_queue),
        badcoin |-> FollowBad(script.badcoin, op, arg, current_state,
                              event_queue)]

\* ------------------------------------------------------------ operations
Init ==
  /\ current_state = "ClosedWaitForMoney"
  /\ extended_state = [coincounter |-> 0, opened |-> 0, closed |-> 0]
  /\ event_queue = <<>>
  /\ transitions = {}
  /\ statetransitions = {}
  /\ lastop = "new"
  /\ inserted = FALSE
  /\ result = NoResult
  /\ wave = <<>>
  /\ steps = <<>>
  /\ trace = <<>>
  /\ before = [current_state |-> "ClosedWaitForMoney",
               extended_state |-> [coincounter |-> 0, opened |-> 0, closed |-> 0],
               event_queue |-> <<>>]
  /\ registered = {}
  /\ given = <<>>
  /\ borrows = <<>>
  /\ dotgraph = DotGraphDefault("ClosedWaitForMoney")
  /\ rendered = "none"
  /\ script = Off

Snapshot ==
  [current_state |-> current_state, extended_state |-> extended_state,
   event_queue |-> event_queue]

Record(reg, kind, k, v) ==
  IF <<kind, k, v>> \in reg THEN reg
  ELSE { p \in reg : ~(p[1] = kind /\ p[2] = k) } \cup { <<kind, k, v>> }

add_transition(from, to) ==
  LET ins == HashMapInsert(transitions, from, to)
  IN /\ transitions' = ins.map
     /\ inserted' = IsNone(ins.old)
     /\ lastop' = "add_transition"
     /\ registered' = Record(registered, "transition", from, to)
     /\ given' = <<>>
     /\ borrows' = <<>>
     /\ rendered' = "none"
     /\ script' = Off
     /\ UNCHANGED dotgraph
     /\ result' = NoResult
     /\ wave' = <<>>
     /\ steps' = <<>>
     /\ trace' = <<>>
     /\ before' = Snapshot
     /\ UNCHANGED <<current_state, extended_state, event_queue, statetransitions>>

add_enter_transition(case, trans, name) ==
  LET ins == HashMapInsert(statetransitions, case, <<trans, name>>)
  IN /\ statetransitions' = ins.map
     /\ inserted' = IsNone(ins.old)
     /\ lastop' = "add_enter_transition"
     /\ registered' = Record(registered, "entryexit", case, <<trans, name>>)
     /\ given' = <<>>
     /\ borrows' = <<>>
     /\ rendered' = "none"
     /\ script' = Off
     /\ UNCHANGED dotgraph
     /\ result' = NoResult
     /\ wave' = <<>>
     /\ steps' = <<>>
     /\ trace' = <<>>
     /\ before' = Snapshot
     /\ UNCHANGED <<current_state, extended_state, event_queue, transitions>>

\* mutant: the events go to the front of the queue
PushFront(q, evs) == evs \o q

\* VecDeque::push_back of each event, in the order given
PushBack(q, evs) == q \o evs

\* ------------------------------------------------ process_event_queue
\* mutant: the wave is copied out of the queue, not moved
DrainKeep(q) == [evs |-> q, rest |-> q]

\* self.event_queue.drain(..).collect(): the captured wave and what stays queued
Drain(q) == [evs |-> q, rest |-> <<>>]

\* mutant: a closure's error is swallowed
AsErrorsSwallow(r) == ErrOK

\* a closure's result as the Errors value the engine folds it into
AsErrors(r) == IF r.ok THEN ErrOK ELSE r.err

\* mutant: the events a closure hands back are dropped
EmittedNone(r) == <<>>

\* the events a closure's Ok(Some(eventset)) result appends to the queue
Emitted(r) == IF r.ok /\ r.some THEN r.events ELSE <<>>

\* one closure invocation, as remembered in trace
Invocation(i, kind, s, f, event, arg, r) ==
  [idx |-> i, kind |-> kind, state |-> s, fn |-> f, event |-> event,
   arg |-> arg, res |-> r]

\* mutant: the engine counts the hook lookups that miss in the extended state
entryexit_counting(m, i, event, s, dir) ==
  LET hit == HashMapGet(statetransitions, <<s, dir>>)
  IN IF IsNone(hit)
       THEN [m EXCEPT !.res = ErrOK, !.ext.opened = @ + 1]
       ELSE LET func == Value(statetransitions, <<s, dir>>)[1]
                r == EntryExitTransitionFn(func, m.ext)
            IN [m EXCEPT
                  !.ext = r.ext,
                  !.q = PushBack(m.q, Emitted(r.res)),
                  !.trace = Append(m.trace,
                                   Invocation(i, dir, s, func, event, NoArg, r.res)),
                  !.res = AsErrors(r.res)]

\* mutant: the events a hook returns are put in front of the queue
entryexit_first(m, i, event, s, dir) ==
  LET hit == HashMapGet(statetransitions, <<s, dir>>)
  IN IF IsNone(hit)
       THEN [m EXCEPT !.res = ErrOK]
       ELSE LET func == Value(statetransitions, <<s, dir>>)[1]
                r == EntryExitTransitionFn(func, m.ext)
            IN [m EXCEPT
                  !.ext = r.ext,
                  !.q = Emitted(r.res) \o m.q,
                  !.trace = Append(m.trace,
                                   Invocation(i, dir, s, func, event, NoArg, r.res)),
                  !.res = AsErrors(r.res)]

\* fn entryexit: run the hook registered for (s, dir), if any.
\* m is the machine in mid-wave: [cur, ext, q, steps, trace, res, held,
\* borrows].
entryexit(m, i, event, s, dir) ==
  LET hit == HashMapGet(statetransitions, <<s, dir>>)
  IN IF IsNone(hit)
       THEN [m EXCEPT !.res = ErrOK]
       ELSE LET func == Value(statetransitions, <<s, dir>>)[1]
                r == EntryExitTransitionFn(func, m.ext)
            IN [m EXCEPT
                  !.ext = r.ext,
                  !.q = PushBack(m.q, Emitted(r.res)),
                  !.trace = Append(m.trace,
                                   Invocation(i, dir, s, func, event, NoArg, r.res)),
                  !.res = AsErrors(r.res)]

\* mutant: the exit hook runs on every transition, self-transitions too
RunsExitAlways(state, endstate) == TRUE
\* mutant: the enter hook is skipped
RunsEnterNever(state, endstate) == FALSE
\* mutant: the enter hook runs on every transition, self-transitions too
RunsEnterAlways(state, endstate) == TRUE

\* mutant: the exit hook is skipped
RunsExitNever(state, endstate) == FALSE

\* mutant: a transition to its own state is taken for a change of state
SameStateNever(state, endstate) == FALSE

\* `state == endstate.clone()`, the test made before either hook
SameState(state, endstate) == state = endstate

\* `if state == endstate.clone() { res } else { entryexit(.. ExitTransition ..) }`
RunsExit(state, endstate) == ~SameState(state, endstate)
\* `if state == endstate.clone() { res } else { entryexit(.. EntryTransition ..) }`
RunsEnter(state, endstate) == ~SameState(state, endstate)

\* mutant: the payload is dropped on the way to the closure
PayloadDropped(e) == NoArg

\* the payload handed to the transition closure: transfn(extstate, e.0, e.1)
Payload(e) == e[2]

\* mutant: the machine never moves
StateAfterNever(cur, endstate, r) == cur
\* mutant: the machine moves whatever the handler returned
StateAfterAlways(cur, endstate, r) == endstate

\* self.current_state after transfn returned r, for the looked-up endstate
StateAfter(cur, endstate, r) == IF r.ok THEN endstate ELSE cur

\* mutant: a handler that fails takes back what was queued during its event
transfn_dropping(m, i, e, state, itrans) ==
  LET r == TransitionFn(itrans.transfn, m.ext, e[1], Payload(e))
  IN [m EXCEPT
        !.cur = StateAfter(m.cur, itrans.endstate, r.res),
        !.ext = r.ext,
        !.q = IF r.res.ok THEN PushBack(m.q, Emitted(r.res)) ELSE <<>>,
        !.trace = Append(m.trace,
                         Invocation(i, "transition", state, itrans.transfn,
                                    e[1], Payload(e), r.res)),
        !.res = AsErrors(r.res)]

\* the transition closure and its bookkeeping (`only continue if exit was ok`)
transfn(m, i, e, state, itrans) ==
  LET r == TransitionFn(itrans.transfn, m.ext, e[1], Payload(e))
  IN [m EXCEPT
        !.cur = StateAfter(m.cur, itrans.endstate, r.res),
        !.ext = r.ext,
        !.q = PushBack(m.q, Emitted(r.res)),
        !.trace = Append(m.trace,
                         Invocation(i, "transition", state, itrans.transfn,
                                    e[1], Payload(e), r.res)),
        !.res = AsErrors(r.res)]

\* mutant: the lookup matches the event alone, whatever the state
LookupAnyState(state, event) ==
  { p[2] : p \in { q \in transitions : q[1][2] = event } }

\* self.transitions.get(&TransitionSource::new(state, event))
Lookup(state, event) == HashMapGet(transitions, TransitionSource(state, event))

\* mutant: the wave is looked up against the state the call started in
RunningStateStale(m) == current_state

\* let state = self.current_state.clone(), taken anew for every event
RunningState(m) == m.cur

\* self.extended_state.borrow_mut(): the borrow is remembered with the
\* number of borrows that were outstanding when it was asked for
BorrowMut(m, i, for) ==
  [m EXCEPT !.borrows = Append(@, [idx |-> i, for |-> for, held |-> m.held]),
            !.held = @ + 1]

\* mutant: the RefMut outlives the call it was handed to
DropLeak(m) == m

\* the RefMut was moved into entryexit or into the handler and is dropped
\* when that returns
Drop(m) == [m EXCEPT !.held = @ - 1]

\* the closure mapped over the wave: one event against the running state
ProcessEvent(m0, i, e) ==
  LET state == RunningState(m0)
      event == e[1]
      trans == Lookup(state, event)
      m == [m0 EXCEPT !.steps = Append(@, [state |-> state, event |-> event,
                                           arg |-> e[2], trans |-> trans])]
  IN IF IsNone(trans)
       THEN [m EXCEPT !.res = NoTransition(event, state)]
       ELSE LET itrans == CHOOSE t \in trans : TRUE
                endstate == itrans.endstate
                m1 == IF RunsExit(state, endstate)
                        THEN Drop(entryexit(BorrowMut(m, i, ExitTransition),
                                            i, event, state, ExitTransition))
                        ELSE [m EXCEPT !.res = ErrOK]
                m2 == IF m1.res = ErrOK
                        THEN Drop(transfn(BorrowMut(m1, i, "transition"),
                                          i, e, state, itrans))
                        ELSE m1
            IN IF m2.res = ErrOK
                 THEN IF RunsEnter(state, endstate)
                        THEN Drop(entryexit(BorrowMut(m2, i, EntryTransition),
                                            i, event, endstate, EntryTransition))
                        ELSE m2
                 ELSE m2

\* .filter(|e| match *e { Errors::OK => false, _ => true })
IsFailure(res) == res # ErrOK
\* mutant: every failure is collected, the wave runs to its end
StopsNever(res) == FALSE

\* .take(1): the iterator is not advanced once a failure was collected
StopsWave(res) == IsFailure(res)

\* mutant: the wave is walked from its last event to its first
RECURSIVE RunWaveBackward(_, _, _)
RunWaveBackward(m, evs, i) ==
  IF i > Len(evs) THEN m
  ELSE LET n == ProcessEvent(m, i, evs[Len(evs) + 1 - i])
       IN IF StopsWave(n.res) THEN n ELSE RunWaveBackward(n, evs, i + 1)

\* mutant: the loop pops the live queue, so emitted events run in the same call
RECURSIVE RunWaveLive(_, _, _)
RunWaveLive(m, evs, i) ==
  IF i > Len(evs)
    THEN IF m.q = <<>> THEN m
         ELSE RunWaveLive([m EXCEPT !.q = <<>>], evs \o m.q, i)
    ELSE LET n == ProcessEvent(m, i, evs[i])
         IN IF IsFailure(n.res) THEN n ELSE RunWaveLive(n, evs, i + 1)

\* evs.drain(..).map(..).filter(..).take(1).collect()
RECURSIVE RunWave(_, _, _)
RunWave(m, evs, i) ==
  IF i > Len(evs) THEN m
  ELSE LET n == ProcessEvent(m, i, evs[i])
       IN IF StopsWave(n.res) THEN n ELSE RunWave(n, evs, i + 1)

\* mutant: the events are processed as soon as they are enqueued
add_events_eager(events) ==
  LET m == RunWave([cur |-> current_state, ext |-> extended_state,
                    q |-> <<>>, steps |-> <<>>, trace |-> <<>>,
                    res |-> ErrOK, held |-> 0, borrows |-> <<>>],
                   PushBack(event_queue, events), 1)
  IN /\ Len(m.q) <= MaxQueue
     /\ m.ext.coincounter <= MaxCount
     /\ m.ext.opened <= MaxCount
     /\ m.ext.closed <= MaxCount
     /\ current_state' = m.cur
     /\ extended_state' = m.ext
     /\ event_queue' = m.q
     /\ result' = Ok(Len(events))
     /\ lastop' = "add_events"
     /\ given' = events
     /\ borrows' = m.borrows
     /\ rendered' = "none"
     /\ script' = Off
     /\ UNCHANGED dotgraph
     /\ inserted' = FALSE
     /\ wave' = <<>>
     /\ steps' = m.steps
     /\ trace' = m.trace
     /\ before' = Snapshot
     /\ UNCHANGED <<transitions, statetransitions, registered>>

\* the calls made keep the queue to MaxQueue events; the four coins of
\* coin_machine_test go on the empty queue of a coin still
Fits(events) ==
  \/ Len(event_queue) + Len(events) <= MaxQueue
  \/ IsCoinStill /\ event_queue = <<>> /\ events = TestCoins

add_events(events) ==
  LET el == Len(events)
  IN /\ Fits(events)
     /\ event_queue' = PushBack(event_queue, events)
     /\ result' = Ok(el)
     /\ lastop' = "add_events"
     /\ given' = events
     /\ borrows' = <<>>
     /\ rendered' = "none"
     /\ UNCHANGED dotgraph
     /\ script' = Follow("add_events", events, PushBack(event_queue, events))
     /\ inserted' = FALSE
     /\ wave' = <<>>
     /\ steps' = <<>>
     /\ trace' = <<>>
     /\ before' = Snapshot
     /\ UNCHANGED <<current_state, extended_state, transitions, statetransitions,
                    registered>>

\* mutant: the caller gets a generic failure in place of the step's error
WaveResultRecast(res, nrev) ==
  IF IsFailure(res) THEN Err(TransitionFailure) ELSE Ok(nrev)
\* mutant: the count includes the call itself
WaveResultOffByOne(res, nrev) ==
  IF IsFailure(res) THEN Err(res) ELSE Ok(nrev + 1)

\* match lr.pop() { Some(x) => Err(x), _ => Ok(nrev) }
WaveResult(res, nrev) == IF IsFailure(res) THEN Err(res) ELSE Ok(nrev)

process_event_queue ==
  LET d == Drain(event_queue)
      nrev == Len(d.evs)
  IN \E m \in { RunWave([cur |-> current_state, ext |-> extended_state,
                         q |-> d.rest, steps |-> <<>>, trace |-> <<>>,
                         res |-> ErrOK, held |-> 0, borrows |-> <<>>],
                        d.evs, 1) } :
     /\ Len(m.q) <= MaxQueue
     /\ m.ext.coincounter <= MaxCount
     /\ m.ext.opened <= MaxCount
     /\ m.ext.closed <= MaxCount
     /\ current_state' = m.cur
     /\ extended_state' = m.ext
     /\ event_queue' = m.q
     /\ result' = WaveResult(m.res, nrev)
     /\ wave' = d.evs
     /\ steps' = m.steps
     /\ trace' = m.trace
     /\ before' = Snapshot
     /\ lastop' = "process_event_queue"
     /\ inserted' = FALSE
     /\ given' = <<>>
     /\ borrows' = m.borrows
     /\ rendered' = "none"
     /\ UNCHANGED dotgraph
     /\ script' = Follow("process_event_queue", <<>>, m.q)
     /\ UNCHANGED <<transitions, statetransitions, registered>>

\* inspection
events_pending == Len(event_queue) > 0

\* the batches of at most MaxBatch events the caller may enqueue
EventBatches == SeqsUpTo(EventInputs, MaxBatch)

Next ==
  \/ \E t \in TransitionInputs : add_transition(t[1], t[2])
  \/ \E h \in EntryExitInputs : add_enter_transition(h[1], h[2], h[3])
  \/ \E events \in EventBatches : add_events(events)
  \/ process_event_queue

Spec == Init /\ [][Next]_vars

\* ------------------------------------------------------------ the coin still
\* FSM::new(initial_state, ..) followed by the add_transition and
\* add_enter_transition calls that fill the two tables
NewMachine(initial_state, table, hooks, followed) ==
  /\ current_state = initial_state
  /\ extended_state = [coincounter |-> 0, opened |-> 0, closed |-> 0]
  /\ event_queue = <<>>
  /\ transitions = table
  /\ statetransitions = hooks
  /\ lastop = "new"
  /\ inserted = FALSE
  /\ result = NoResult
  /\ wave = <<>>
  /\ steps = <<>>
  /\ trace = <<>>
  /\ before = [current_state |-> initial_state,
               extended_state |-> [coincounter |-> 0, opened |-> 0, closed |-> 0],
               event_queue |-> <<>>]
  /\ registered = { <<"transition", p[1], p[2]>> : p \in table }
                     \cup { <<"entryexit", p[1], p[2]>> : p \in hooks }
  /\ given = <<>>
  /\ borrows = <<>>
  /\ dotgraph = DotGraphDefault(initial_state)
  /\ rendered = "none"
  /\ script = followed

\* the machine build_fsm returns: it starts in ClosedWaitForMoney
InitCoin ==
  NewMachine("ClosedWaitForMoney", build_fsm_transitions,
             build_fsm_statetransitions, Fresh)

\* what a caller of the coin still may enqueue in one call: short batches,
\* and the four coins of coin_machine_test
CoinBatches == SeqsUpTo(CoinEventInputs, MaxBatch) \cup {TestCoins}

NextCoin ==
  \/ \E events \in CoinBatches : add_events(events)
  \/ process_event_queue

SpecCoin == InitCoin /\ [][NextCoin]_vars

\* ------------------------------------------------- a machine whose hooks emit
\* A machine on the still's states in which the exit hook, the handler and
\* the enter hook of one step emit three different events (a bad coin in
\* ClosedWaitForMoney) and two steps of one wave emit (GotCoin, then Timeout,
\* in OpenWaitForTimeOut); OpenWaitForTimeOut has a transition to itself and
\* both an exit and an enter hook.
emitting_transitions ==
  { <<TransitionSource("ClosedWaitForMoney", "GotCoin"),
      TransitionTarget("CheckingMoney", "check_money", "ProcessCoin")>>,
    <<TransitionSource("CheckingMoney", "AcceptMoney"),
      TransitionTarget("OpenWaitForTimeOut", "accepted", "Accepted")>>,
    <<TransitionSource("OpenWaitForTimeOut", "GotCoin"),
      TransitionTarget("OpenWaitForTimeOut", "reject", "Reject")>>,
    <<TransitionSource("OpenWaitForTimeOut", "Timeout"),
      TransitionTarget("ClosedWaitForMoney", "ok_none", "TimeOut")>> }

emitting_statetransitions ==
  { << <<"ClosedWaitForMoney", ExitTransition>>, <<"count_emit", "CountEmit">> >>,
    << <<"CheckingMoney", EntryTransition>>, <<"emit", "Emit">> >>,
    << <<"OpenWaitForTimeOut", EntryTransition>>, <<"emit", "Emit">> >>,
    << <<"OpenWaitForTimeOut", ExitTransition>>, <<"emit", "Emit">> >> }

InitEmitting ==
  NewMachine("ClosedWaitForMoney", emitting_transitions,
             emitting_statetransitions, Off)

SpecEmitting == InitEmitting /\ [][NextCoin]_vars

\* ------------------------------------------------------------ the exporter
\* DotNodeKey(Option<EntryExit>, StateType); NoEntryExit is the None of a
\* state's own node
NoEntryExit == "None"
DotNodeKey(ee, s) == <<ee, s>>

\* enum DotEdgeKey
DotEdgeKeyTransition(tk) == <<"Transition", tk>>
DotEdgeKeyEntryExit(eek) == <<"EntryExit", eek>>

\* what a lookup yields when it runs into unreachable!()
Unreachable == <<"unreachable!()">>

\* the file names handed to dotfile: None, a file that can be created, and
\* a file in a directory that does not exist
NoFilename == "None"
DotFilenames == {NoFilename, "target/tmp.dot", "missing/tmp.dot"}

\* fs::File::create(fname).map(|f| Some(f)), or Ok(None) without a name
FileAttempt(filename) ==
  IF filename = NoFilename THEN [ok |-> TRUE, f |-> "stdout"]
  ELSE IF filename = "missing/tmp.dot" THEN [ok |-> FALSE, f |-> "NotFound"]
  ELSE [ok |-> TRUE, f |-> filename]

\* the state2name maps handed to dotfile: every state named by itself, cut
\* down to no state, one, two and all three
StateNames(S) == { <<st, st>> : st \in S }
State2NameInputs ==
  { StateNames({}), StateNames({"ClosedWaitForMoney"}),
    StateNames({"ClosedWaitForMoney", "CheckingMoney"}), StateNames(StillStates) }

\* the event2name maps handed to dotfile: all events named, or none
Event2NameInputs == { { <<ev, ev>> : ev \in StillEvents }, {} }

\* HashMap::get(k).unwrap_or(d)
UnwrapOr(opt, d) == IF IsNone(opt) THEN d ELSE CHOOSE v \in opt : TRUE

\* the node of a state: a diamond for the start state
StateNode(g, state2name, n) ==
  [shape |-> IF g.start_state = n THEN "diamond" ELSE "None",
   style |-> "None",
   label |-> UnwrapOr(HashMapGet(state2name, n), "?")]

\* the shadow node of a registered Enter or Exit hook
PseudoNode(t) ==
  [shape |-> "plain", style |-> "Dashed",
   label |-> IF t = EntryTransition THEN "Enter" ELSE "Exit"]

\* the nodes dotfile inserts: for every key of state2name the state's node
\* and a shadow node for each hook registered on that state
NewNodes(g, state2name) ==
  { <<DotNodeKey(NoEntryExit, n), StateNode(g, state2name, n)>> :
      n \in Keys(state2name) }
  \cup { <<DotNodeKey(eek[2], eek[1]), PseudoNode(eek[2])>> :
           eek \in { k \in Keys(statetransitions) : k[1] \in Keys(state2name) } }

\* the edges dotfile inserts: one for every entry of transitions and one for
\* every entry of statetransitions, whatever state2name holds
NewEdges(event2name) ==
  { <<DotEdgeKeyTransition(t[1]),
      [style |-> "None",
       label |-> <<t[2].name, UnwrapOr(HashMapGet(event2name, t[1][2]), "")>>]>> :
      t \in transitions }
  \cup { <<DotEdgeKeyEntryExit(t[1]), [style |-> "None", label |-> <<t[2][2]>>]>> :
           t \in statetransitions }

\* HashMap::insert of each pair of new into map
InsertAll(map, new) == { p \in map : p[1] \notin Keys(new) } \cup new

\* GraphWalk::source
source(e) ==
  IF e[1] = "EntryExit"
    THEN IF e[2][2] = EntryTransition
           THEN DotNodeKey(e[2][2], e[2][1])
           ELSE IF ~IsNone(HashMapGet(statetransitions, e[2]))
                  THEN DotNodeKey(NoEntryExit, e[2][1])
                  ELSE Unreachable
    ELSE DotNodeKey(NoEntryExit, e[2][1])

\* GraphWalk::target
target(e) ==
  IF e[1] = "EntryExit"
    THEN IF e[2][2] = ExitTransition
           THEN DotNodeKey(e[2][2], e[2][1])
           ELSE IF ~IsNone(HashMapGet(statetransitions, e[2]))
                  THEN DotNodeKey(NoEntryExit, e[2][1])
                  ELSE Unreachable
    ELSE IF ~IsNone(HashMapGet(transitions, e[2]))
           THEN DotNodeKey(NoEntryExit, Value(transitions, e[2]).endstate)
           ELSE Unreachable

\* Labeller::node_id: the node's id (here its key), or unreachable!() when
\* the node map has no such node
node_id(g, n) ==
  IF n = Unreachable \/ IsNone(HashMapGet(g.nodes, n)) THEN Unreachable ELSE n

\* the edges whose source or target node_id cannot be given
Dangling(g) ==
  { e \in Keys(g.edges) : \/ node_id(g, source(e)) = Unreachable
                          \/ node_id(g, target(e)) = Unreachable }

\* dot::render(self, w): walks nodes() and edges() and asks node_id for the
\* source and the target of every edge; the sink takes what is written
render(g) == IF Dangling(g) # {} THEN "panic" ELSE "Ok"

\* FSM::dotfile
dotfile(filename, state2name, event2name) ==
  LET fileattempt == FileAttempt(filename)
      g == [dotgraph EXCEPT !.nodes = InsertAll(@, NewNodes(dotgraph, state2name)),
                            !.edges = InsertAll(@, NewEdges(event2name))]
  IN /\ dotgraph' = IF fileattempt.ok THEN g ELSE dotgraph
     /\ rendered' = IF fileattempt.ok THEN render(g) ELSE "Err"
     /\ lastop' = "dotfile"
     /\ inserted' = FALSE
     /\ given' = <<filename, state2name, event2name>>
     /\ borrows' = <<>>
     /\ script' = Off
     /\ result' = NoResult
     /\ wave' = <<>>
     /\ steps' = <<>>
     /\ trace' = <<>>
     /\ before' = Snapshot
     /\ UNCHANGED <<current_state, extended_state, event_queue, transitions,
                    statetransitions, registered>>

\* the registrations of the machine that is drawn: two transitions, an Exit
\* hook and an Enter hook
DotTransitionInputs ==
  { t \in TransitionInputs : t[2].transfn \in {"check_money", "accepted"} }
DotEntryExitInputs ==
  { h \in EntryExitInputs : h[2] \in {"count_emit", "emit"} }

\* a machine that is built up and drawn
NextDot ==
  \/ \E t \in DotTransitionInputs : add_transition(t[1], t[2])
  \/ \E h \in DotEntryExitInputs : add_enter_transition(h[1], h[2], h[3])
  \/ \E filename \in DotFilenames, state2name \in State2NameInputs,
        event2name \in Event2NameInputs :
       dotfile(filename, state2name, event2name)

SpecDot == Init /\ [][NextDot]_vars

\* ------------------------------------------------------------ properties
IsProcess == lastop = "process_event_queue"

\* what the closures were observed to do, read off trace
Failed(t) == ~t.res.ok /\ t.res.err # <<"OK">>
EmittedBy(t) == IF t.res.ok THEN t.res.events ELSE <<>>
RECURSIVE EmittedDuring(_)
EmittedDuring(tr) ==
  IF tr = <<>> THEN <<>> ELSE EmittedBy(Head(tr)) \o EmittedDuring(Tail(tr))
At(k) == { j \in 1..Len(trace) : trace[j].idx = k }
Ran(k, kind) == { j \in At(k) : trace[j].kind = kind }

\* C1 (wave deferral): a process_event_queue call handles only events that
\* were in the queue when it was called, each at most once and in queue
\* order; every event a handler or hook emitted during the call is still in
\* the queue when the call returns (events_pending is true), so only a later
\* call can process it.
C1_WaveDeferral ==
  IsProcess =>
    /\ wave = before.event_queue
    /\ Len(steps) <= Len(wave)
    /\ \A k \in 1..Len(steps) : <<steps[k].event, steps[k].arg>> = wave[k]
    /\ \A j \in 1..Len(trace) :
         /\ trace[j].idx \in 1..Len(steps)
         /\ trace[j].event = wave[trace[j].idx][1]
         /\ EmittedBy(trace[j]) # <<>> => events_pending
    /\ event_queue = EmittedDuring(trace)

\* an exit hook, a handler and an enter hook each emitted during one call
C1_Witness ==
  /\ IsProcess
  /\ result.ok
  /\ \A kind \in {ExitTransition, "transition", EntryTransition} :
       \E j \in 1..Len(trace) :
         trace[j].kind = kind /\ EmittedBy(trace[j]) # <<>>
  /\ Len(event_queue) = 3

\* the step of the k-th event of the wave failed: no transition, or one of
\* its closures returned an error
StepFailed(k) ==
  \/ IsNone(steps[k].trans)
  \/ \E j \in At(k) : Failed(trace[j])
StepError(k) ==
  IF IsNone(steps[k].trans)
    THEN <<"NoTransition", steps[k].event, steps[k].state>>
    ELSE trace[CHOOSE j \in At(k) : Failed(trace[j])].res.err

\* C2 (fail-fast): when the step of an event of the wave fails, no later
\* event of the wave is looked up or has a handler or hook run, none of them
\* is in the queue afterwards, and the call returns the error of that step.
C2_FailFast ==
  IsProcess =>
    \A k \in 1..Len(steps) :
      StepFailed(k) =>
        /\ Len(steps) = k
        /\ \A j \in 1..Len(trace) : trace[j].idx <= k
        /\ event_queue = EmittedDuring(trace)
        /\ result = [ok |-> FALSE, n |-> 0, err |-> StepError(k)]

\* [e1, e2, e3] queued, e1 ran its handler, e2 failed
C2_Witness ==
  /\ IsProcess
  /\ Len(wave) = 3
  /\ Len(steps) = 2
  /\ StepFailed(2)
  /\ Ran(1, "transition") # {}
  /\ ~result.ok

\* C3 (missing transition): when the first event of the wave has no entry
\* for the state the machine is in, the call returns
\* Err(NoTransition(event, state)), runs no handler or hook and leaves
\* current_state (and the extended state) as it was.
C3_MissingTransition ==
  ( /\ IsProcess
    /\ Len(wave) >= 1
    /\ ~\E p \in transitions : p[1] = <<before.current_state, wave[1][1]>> )
  => /\ result = [ok |-> FALSE, n |-> 0,
                  err |-> <<"NoTransition", wave[1][1], before.current_state>>]
     /\ trace = <<>>
     /\ current_state = before.current_state
     /\ extended_state = before.extended_state

\* a lone event that the table knows, but only for another state
C3_Witness ==
  /\ IsProcess
  /\ Len(wave) = 1
  /\ ~\E p \in transitions : p[1] = <<before.current_state, wave[1][1]>>
  /\ \E p \in transitions : p[1][2] = wave[1][1]
  /\ ~result.ok

\* the table entry the k-th event of the wave was looked up against
Entries(k) == { p[2] : p \in { q \in transitions :
                                 q[1] = <<steps[k].state, wave[k][1]>> } }
\* current_state as the k-th step left it
StateAfterStep(k) == IF k < Len(steps) THEN steps[k + 1].state ELSE current_state
\* the exit hook and the handler of step k, as far as they ran, returned Ok
ExitAndHandlerOk(k) ==
  \A j \in Ran(k, ExitTransition) \cup Ran(k, "transition") : trace[j].res.ok
\* the handler of step k ran exactly once, as entry's closure, on wave[k]
HandlerRanOnce(k, entry) ==
  /\ Cardinality(Ran(k, "transition")) = 1
  /\ \A j \in Ran(k, "transition") :
       /\ trace[j].fn = entry.transfn
       /\ trace[j].event = wave[k][1]
       /\ trace[j].arg = wave[k][2]

\* C4 as claimed: every event with a registered entry moves the machine to
\* the entry's target and has the entry's handler invoked exactly once with
\* its payload.
C4_AsClaimed ==
  IsProcess =>
    \A k \in 1..Len(steps) : \A entry \in Entries(k) :
      /\ HandlerRanOnce(k, entry)
      /\ StateAfterStep(k) = entry.endstate

\* C4 (lookup correctness), amended: an event with a registered entry for
\* the running state has the entry's handler invoked exactly once with the
\* payload it was enqueued with, provided its exit hook (if one runs)
\* returns success, and leaves current_state at the entry's target, provided
\* the handler too returns success.
C4_LookupCorrectness ==
  IsProcess =>
    /\ Len(steps) >= 1 => steps[1].state = before.current_state
    /\ \A k \in 1..Len(steps) : \A entry \in Entries(k) :
         /\ (\A j \in Ran(k, ExitTransition) : trace[j].res.ok) =>
              HandlerRanOnce(k, entry)
         /\ ExitAndHandlerOk(k) => StateAfterStep(k) = entry.endstate

\* a lone event with a payload took the machine to another state
C4_Witness ==
  /\ IsProcess
  /\ Len(wave) = 1
  /\ wave[1][2] # NoArg
  /\ Entries(1) # {}
  /\ ExitAndHandlerOk(1)
  /\ current_state # before.current_state

\* the hook registered for (s, dir) fired exactly once in step k, if there is one
HookFiredOnce(k, s, dir) ==
  \A p \in statetransitions :
    p[1] = <<s, dir>> =>
      /\ Cardinality(Ran(k, dir)) = 1
      /\ \A j \in Ran(k, dir) : trace[j].state = s /\ trace[j].fn = p[2][1]
\* whatever ran in step k ran in the order exit hook, handler, enter hook
InOrder(k) ==
  \A i, j \in At(k) :
    \/ trace[i].kind = ExitTransition /\ trace[j].kind = "transition"
    \/ trace[i].kind = ExitTransition /\ trace[j].kind = EntryTransition
    \/ trace[i].kind = "transition" /\ trace[j].kind = EntryTransition
    => i < j

\* C5 as claimed: on every transition to another state the exit hook of the
\* source and the enter hook of the target each fire exactly once, in the
\* order exit hook, handler, enter hook.
C5_AsClaimed ==
  IsProcess =>
    \A k \in 1..Len(steps) : \A entry \in Entries(k) :
      entry.endstate # steps[k].state =>
        /\ HookFiredOnce(k, steps[k].state, ExitTransition)
        /\ HookFiredOnce(k, entry.endstate, EntryTransition)
        /\ InOrder(k)

\* C5 (hook firing rule), amended: on a transition to another state the exit
\* hook registered for the source fires exactly once, before the handler;
\* when the exit hook (if any) and the handler return success, the enter
\* hook registered for the target fires exactly once, after the handler.
C5_HookFiringRule ==
  IsProcess =>
    \A k \in 1..Len(steps) : \A entry \in Entries(k) :
      entry.endstate # steps[k].state =>
        /\ HookFiredOnce(k, steps[k].state, ExitTransition)
        /\ InOrder(k)
        /\ Cardinality(Ran(k, "transition")) <= 1
        /\ Cardinality(Ran(k, EntryTransition)) <= 1
        /\ ExitAndHandlerOk(k) =>
             /\ Cardinality(Ran(k, "transition")) = 1
             /\ HookFiredOnce(k, entry.endstate, EntryTransition)

\* an exit hook, the handler and an enter hook all ran for one event
C5_Witness ==
  /\ IsProcess
  /\ \E k \in 1..Len(steps) :
       /\ Ran(k, ExitTransition) # {}
       /\ Ran(k, "transition") # {}
       /\ Ran(k, EntryTransition) # {}
       /\ ExitAndHandlerOk(k)

\* C6 (self-transition): when the entry looked up for an event has the
\* running state as its target, the handler runs (once) and no exit or enter
\* hook runs for that event.
C6_SelfTransition ==
  IsProcess =>
    \A k \in 1..Len(steps) : \A entry \in Entries(k) :
      entry.endstate = steps[k].state =>
        /\ HandlerRanOnce(k, entry)
        /\ Ran(k, ExitTransition) = {}
        /\ Ran(k, EntryTransition) = {}

\* a self-transition in a state that has both an exit and an enter hook
\* registered
C6_Witness ==
  /\ IsProcess
  /\ \E k \in 1..Len(steps) : \E entry \in Entries(k) :
       /\ entry.endstate = steps[k].state
       /\ \E p \in statetransitions : p[1] = <<steps[k].state, "ExitTransition">>
       /\ \E p \in statetransitions : p[1] = <<steps[k].state, "EntryTransition">>
       /\ Ran(k, "transition") # {}

UniqueKeys(map) == \A p, q \in map : p[1] = q[1] => p = q
Latest(kind) == { <<p[2], p[3]>> : p \in { q \in registered : q[1] = kind } }
\* every closure the last call invoked is the one most recently registered
\* under its key, and a successful handler left the machine at the most
\* recently registered target
UsesLatest ==
  \A j \in 1..Len(trace) :
    IF trace[j].kind = "transition"
      THEN \A p \in Latest("transition") :
             p[1] = <<trace[j].state, trace[j].event>> =>
               /\ trace[j].fn = p[2].transfn
               /\ trace[j].res.ok => StateAfterStep(trace[j].idx) = p[2].endstate
      ELSE \A p \in Latest("entryexit") :
             p[1] = <<trace[j].state, trace[j].kind>> => trace[j].fn = p[2][1]
\* a registration returns true exactly when it brought a new key into its table
ReportsOverwrite ==
  /\ lastop' = "add_transition" =>
       inserted' = (Keys(transitions') # Keys(transitions))
  /\ lastop' = "add_enter_transition" =>
       inserted' = (Keys(statetransitions') # Keys(statetransitions))

\* C7 (overwrite reporting): add_transition and add_enter_transition return
\* true when the key was not registered before and false when they replace
\* an entry; each table holds one entry per key, the most recently
\* registered one, and process_event_queue uses that entry.
C7_OverwriteReporting ==
  /\ [](/\ UniqueKeys(transitions)
        /\ UniqueKeys(statetransitions)
        /\ transitions = Latest("transition")
        /\ statetransitions = Latest("entryexit")
        /\ IsProcess => UsesLatest)
  /\ [][ReportsOverwrite]_vars

\* a registration that replaced an entry by a different one
C7_Witness ==
  /\ lastop = "add_transition"
  /\ inserted = FALSE
  /\ Cardinality(transitions) >= 2
  /\ \E p \in transitions : p[2].transfn = "count_fail"

\* a process_event_queue call ran the handler registered second under its key
C7_WitnessUse ==
  /\ IsProcess
  /\ \E j \in 1..Len(trace) : trace[j].fn = "err_ok"
  /\ \E p \in statetransitions : p[2][1] = "hook_fail"

\* the counters as the closures that ran must have left them
Counted(fns) == Cardinality({ j \in 1..Len(trace) : trace[j].fn \in fns })
ExpectedExt ==
  [coincounter |-> before.extended_state.coincounter
                     + Counted({"accepted", "count_fail"}),
   opened |-> before.extended_state.opened + Counted({"CountOpens"}),
   closed |-> before.extended_state.closed
                + Counted({"CountClose", "count_emit"})]
\* the state the last successful handler of the call moved the machine to
Moved == { k \in 1..Len(steps) : \E j \in Ran(k, "transition") : trace[j].res.ok }
ExpectedState ==
  IF Moved = {} THEN before.current_state
  ELSE LET k == CHOOSE x \in Moved : \A y \in Moved : y <= x
       IN (CHOOSE entry \in Entries(k) : TRUE).endstate

\* C8 (abort retention): after a call that returned an error, current_state
\* is where the last successful handler of the wave left it, the extended
\* state carries every change the closures of the wave made, and none of
\* the wave's events is in the queue.
C8_AbortRetention ==
  IsProcess /\ ~result.ok =>
    /\ current_state = ExpectedState
    /\ extended_state = ExpectedExt
    /\ event_queue = EmittedDuring(trace)

\* a wave that changed state and extended state, failed, and dropped an event
C8_Witness ==
  /\ IsProcess
  /\ ~result.ok
  /\ Len(steps) >= 2
  /\ Len(wave) > Len(steps)
  /\ current_state # before.current_state
  /\ extended_state # before.extended_state

\* C9 (exit hook failure): when the exit hook of the running state returns
\* an error, the call returns that error, current_state stays the state that
\* was being left, and neither the handler nor the enter hook of that event
\* is invoked.
C9_ExitHookFailure ==
  IsProcess =>
    \A j \in 1..Len(trace) :
      trace[j].kind = ExitTransition /\ Failed(trace[j]) =>
        /\ result = [ok |-> FALSE, n |-> 0, err |-> trace[j].res.err]
        /\ trace[j].state = steps[trace[j].idx].state
        /\ current_state = trace[j].state
        /\ Ran(trace[j].idx, "transition") = {}
        /\ Ran(trace[j].idx, EntryTransition) = {}
        /\ j = Len(trace)

\* an exit hook failed on the way to a state that has an enter hook
C9_Witness ==
  /\ IsProcess
  /\ \E j \in 1..Len(trace) :
       /\ trace[j].kind = ExitTransition
       /\ Failed(trace[j])
       /\ \E entry \in Entries(trace[j].idx) : \E p \in statetransitions :
            p[1] = <<entry.endstate, EntryTransition>>

\* C10 (enter hook failure): when the enter hook of the target returns an
\* error, the call returns that error and current_state is the target.
C10_EnterHookFailure ==
  IsProcess =>
    \A j \in 1..Len(trace) :
      trace[j].kind = EntryTransition /\ Failed(trace[j]) =>
        /\ result = [ok |-> FALSE, n |-> 0, err |-> trace[j].res.err]
        /\ \A entry \in Entries(trace[j].idx) :
             trace[j].state = entry.endstate /\ current_state = entry.endstate

\* C10 where the handler before the enter hook returned Ok: the claim holds
C10_AfterHandlerOk ==
  IsProcess =>
    \A j \in 1..Len(trace) :
      ( /\ trace[j].kind = EntryTransition
        /\ Failed(trace[j])
        /\ \A i \in Ran(trace[j].idx, "transition") : trace[i].res.ok ) =>
        /\ result = [ok |-> FALSE, n |-> 0, err |-> trace[j].res.err]
        /\ \A entry \in Entries(trace[j].idx) :
             trace[j].state = entry.endstate /\ current_state = entry.endstate

\* the kinds of error a closure can hand back
ErrorKinds == {"NoTransition", "InternalError", "TransitionFailure"}
\* invocations of the same closure for the same event of the wave
SameCall(j) ==
  { i \in At(trace[j].idx) : trace[i].kind = trace[j].kind }

\* C11 (error propagation): when a handler, an exit hook or an enter hook
\* returns a NoTransition, InternalError or TransitionFailure error, nothing
\* runs after it in the call (no later closure, no later event), the call
\* returns exactly that error as its Err result, the closure is not invoked
\* again and no event of the wave is put back for a retry.
C11_ErrorPropagation ==
  IsProcess =>
    \A j \in 1..Len(trace) :
      (~trace[j].res.ok /\ trace[j].res.err[1] \in ErrorKinds) =>
        /\ j = Len(trace)
        /\ trace[j].idx = Len(steps)
        /\ result = [ok |-> FALSE, n |-> 0, err |-> trace[j].res.err]
        /\ Cardinality(SameCall(j)) = 1
        /\ event_queue = EmittedDuring(trace)

\* the enter hook of the second of three events returned a NoTransition
\* error naming another event than the one being handled
C11_Witness ==
  /\ IsProcess
  /\ Len(wave) = 3
  /\ Len(steps) = 2
  /\ trace # <<>>
  /\ trace[Len(trace)].kind = EntryTransition
  /\ ~trace[Len(trace)].res.ok
  /\ trace[Len(trace)].res.err[1] = "NoTransition"
  /\ trace[Len(trace)].res.err[2] # steps[2].event
  /\ result.err = trace[Len(trace)].res.err

\* further cases of C11: each kind of error from a handler and from a hook
C11_HandlerNoTransition ==
  IsProcess /\ \E j \in 1..Len(trace) :
    trace[j].kind = "transition" /\ ~trace[j].res.ok
      /\ trace[j].res.err[1] = "NoTransition"
C11_HandlerTransitionFailure ==
  IsProcess /\ \E j \in 1..Len(trace) :
    trace[j].kind = "transition" /\ ~trace[j].res.ok
      /\ trace[j].res.err[1] = "TransitionFailure"
C11_ExitInternalError ==
  IsProcess /\ \E j \in 1..Len(trace) :
    trace[j].kind = ExitTransition /\ ~trace[j].res.ok
      /\ trace[j].res.err[1] = "InternalError"
C11_ExitTransitionFailure ==
  IsProcess /\ \E j \in 1..Len(trace) :
    trace[j].kind = ExitTransition /\ ~trace[j].res.ok
      /\ trace[j].res.err[1] = "TransitionFailure"
C11_ExitNoTransition ==
  IsProcess /\ \E j \in 1..Len(trace) :
    trace[j].kind = ExitTransition /\ ~trace[j].res.ok
      /\ trace[j].res.err[1] = "NoTransition"
C11_EnterTransitionFailure ==
  IsProcess /\ \E j \in 1..Len(trace) :
    trace[j].kind = EntryTransition /\ ~trace[j].res.ok
      /\ trace[j].res.err[1] = "TransitionFailure"
      /\ \A i \in Ran(trace[j].idx, "transition") : trace[i].res.ok

\* C12 (return count): when no step of the wave fails, the call returns
\* Ok(n) with n the number of events queued when it was called, whatever
\* the closures appended meanwhile; on an empty queue it returns Ok(0),
\* runs nothing and leaves current_state, the extended state, the queue and
\* both tables as they were.
C12_ReturnCount ==
  IsProcess =>
    /\ (\A k \in 1..Len(steps) : ~StepFailed(k)) =>
         /\ result = [ok |-> TRUE, n |-> Len(before.event_queue),
                      err |-> <<"OK">>]
         /\ Len(steps) = Len(before.event_queue)
    /\ before.event_queue = <<>> =>
         /\ result = [ok |-> TRUE, n |-> 0, err |-> <<"OK">>]
         /\ trace = <<>>
         /\ steps = <<>>
         /\ current_state = before.current_state
         /\ extended_state = before.extended_state
         /\ event_queue = <<>>
         /\ transitions = Latest("transition")
         /\ statetransitions = Latest("entryexit")

\* two events were processed and the closures left another number queued
C12_Witness ==
  /\ IsProcess
  /\ result.ok
  /\ result.n = 2
  /\ Len(before.event_queue) = 2
  /\ Len(event_queue) = 3

\* a call on the empty queue of a machine that has been around
C12_WitnessEmpty ==
  /\ IsProcess
  /\ before.event_queue = <<>>
  /\ current_state # "ClosedWaitForMoney"
  /\ transitions # {}

\* C13 (FIFO enqueue): add_events(evs) returns Ok(len(evs)) and leaves the
\* queue equal to the old queue followed by evs in the order given; a
\* registration leaves the queue alone, and process_event_queue takes the
\* whole queue as its wave and handles it front to back, so events of
\* successive add_events calls are processed in their order of arrival.
C13_FifoEnqueue ==
  /\ lastop = "add_events" =>
       /\ result = [ok |-> TRUE, n |-> Len(given), err |-> <<"OK">>]
       /\ Len(event_queue) = Len(before.event_queue) + Len(given)
       /\ \A k \in 1..Len(before.event_queue) :
            event_queue[k] = before.event_queue[k]
       /\ \A k \in 1..Len(given) :
            event_queue[Len(before.event_queue) + k] = given[k]
  /\ lastop \in {"add_transition", "add_enter_transition"} =>
       event_queue = before.event_queue
  /\ IsProcess =>
       /\ wave = before.event_queue
       /\ \A k \in 1..Len(steps) : <<steps[k].event, steps[k].arg>> = wave[k]

\* two different events were enqueued behind a different one already waiting
C13_Witness ==
  /\ lastop = "add_events"
  /\ Len(before.event_queue) = 1
  /\ Len(given) = 2
  /\ given[1] # given[2]
  /\ given[1] # before.event_queue[1]
  /\ Len(event_queue) = 3

\* C14 (enqueue never processes): after add_events no handler and no hook
\* has run and no event was looked up; current_state and the extended state
\* are as before the call and both tables hold what was registered.
C14_EnqueueNeverProcesses ==
  lastop = "add_events" =>
    /\ trace = <<>>
    /\ steps = <<>>
    /\ current_state = before.current_state
    /\ extended_state = before.extended_state
    /\ transitions = Latest("transition")
    /\ statetransitions = Latest("entryexit")

\* an event was enqueued that the table has a handler and an exit hook for
C14_Witness ==
  /\ lastop = "add_events"
  /\ given # <<>>
  /\ \E p \in transitions :
       /\ p[1] = <<current_state, given[1][1]>>
       /\ p[2].endstate # current_state
  /\ \E p \in statetransitions : p[1] = <<current_state, "ExitTransition">>
  /\ event_queue = given

\* the state the k-th step of the wave left the machine in, by its handler
LeftBy(k) ==
  IF \E j \in Ran(k, "transition") : trace[j].res.ok
    THEN (CHOOSE entry \in Entries(k) : TRUE).endstate
    ELSE steps[k].state

\* C15 (in-order wave): the events of the wave are handled in queue order;
\* the closures of one event all run before any closure of the next, and
\* the next event is looked up in the state the previous step left.
C15_InOrderWave ==
  IsProcess =>
    /\ Len(steps) <= Len(wave)
    /\ \A k \in 1..Len(steps) : <<steps[k].event, steps[k].arg>> = wave[k]
    /\ \A i, j \in 1..Len(trace) : i < j => trace[i].idx <= trace[j].idx
    /\ \A j \in 1..Len(trace) :
         /\ trace[j].idx \in 1..Len(steps)
         /\ trace[j].event = wave[trace[j].idx][1]
         /\ InOrder(trace[j].idx)
    /\ \A k \in 1..Len(steps) :
         /\ k = 1 => steps[k].state = before.current_state
         /\ k > 1 => steps[k].state = LeftBy(k - 1)

\* three events, not all the same, each ran a handler, in two states at least
C15_Witness ==
  /\ IsProcess
  /\ Len(wave) = 3
  /\ Len(steps) = 3
  /\ wave[1] # wave[2]
  /\ wave[1] # wave[3] \/ wave[2] # wave[3]
  /\ \A k \in 1..3 : Ran(k, "transition") # {}
  /\ steps[2].state # steps[1].state \/ steps[3].state # steps[2].state

\* C16 (state changes only by a successful handler): registrations and
\* add_events leave current_state alone; within a wave the running state
\* starts as current_state was, and a step changes it only when the step's
\* handler ran and returned Ok, and then to the target of the entry that was
\* looked up: a hook, a missing transition or a failed handler change nothing.
C16_StateChangesOnlyByHandler ==
  /\ lastop \in {"add_transition", "add_enter_transition", "add_events"} =>
       current_state = before.current_state
  /\ IsProcess =>
       /\ steps = <<>> => current_state = before.current_state
       /\ steps # <<>> => steps[1].state = before.current_state
       /\ \A k \in 1..Len(steps) :
            /\ StateAfterStep(k) # steps[k].state =>
                 /\ \E j \in Ran(k, "transition") : trace[j].res.ok
                 /\ Entries(k) # {}
                 /\ \A entry \in Entries(k) : StateAfterStep(k) = entry.endstate
            /\ Entries(k) = {} => StateAfterStep(k) = steps[k].state
            /\ (\A j \in Ran(k, "transition") : ~trace[j].res.ok) =>
                 StateAfterStep(k) = steps[k].state

\* one wave in which a handler moved the machine, and then a step that ran
\* a closure left it where it was
C16_Witness ==
  /\ IsProcess
  /\ Len(steps) >= 2
  /\ steps[2].state # steps[1].state
  /\ \E k \in 2..Len(steps) :
       /\ At(k) # {}
       /\ \A j \in Ran(k, "transition") : ~trace[j].res.ok
       /\ StateAfterStep(k) = steps[k].state

\* a hook failed, or a handler failed, on the way to another state
C16_WitnessFailure ==
  /\ IsProcess
  /\ \E k \in 1..Len(steps) : \E entry \in Entries(k) :
       /\ entry.endstate # steps[k].state
       /\ \E j \in At(k) : Failed(trace[j])
       /\ current_state = steps[k].state

\* C17 (the engine never mutates the extended state): registrations and
\* add_events leave the extended state as it was; after a wave it differs
\* from what it was by exactly what the handlers and hooks that ran did to
\* it, so a wave that ran no closure (empty, or a missing transition) leaves
\* it unchanged.
C17_EngineNeverMutates ==
  /\ lastop \in {"add_transition", "add_enter_transition", "add_events"} =>
       extended_state = before.extended_state
  /\ IsProcess =>
       /\ extended_state = ExpectedExt
       /\ trace = <<>> => extended_state = before.extended_state
       /\ \A k \in 1..Len(steps) :
            IsNone(steps[k].trans) => At(k) = {}

\* a closure changed the extended state, then an event had no transition
C17_Witness ==
  /\ IsProcess
  /\ Len(steps) >= 2
  /\ IsNone(steps[Len(steps)].trans)
  /\ extended_state # before.extended_state
  /\ \E k \in 1..Len(steps) : \E entry \in Entries(k) :
       /\ entry.endstate # steps[k].state
       /\ Ran(k, "ExitTransition") = {}

\* C18 (coin still counters): on the machine build_fsm returns, after any
\* calls of add_events and process_event_queue, coincounter = opened, and
\* opened - closed is 1 in OpenWaitForTimeOut and 0 in the other states; in
\* the run of coin_machine_test every process_event_queue call succeeds, the
\* machine is in OpenWaitForTimeOut once the four coins are drained, and it
\* ends in ClosedWaitForMoney with coincounter = opened = closed = 1.
C18_CoinCounters ==
  /\ extended_state.coincounter = extended_state.opened
  /\ extended_state.opened - extended_state.closed
       = IF current_state = "OpenWaitForTimeOut" THEN 1 ELSE 0
  /\ (script.test \in {"coins", "drained", "timeout", "done"} /\ IsProcess) =>
       result.ok
  /\ script.test = "drained" => current_state = "OpenWaitForTimeOut"
  /\ script.test = "done" =>
       /\ current_state = "ClosedWaitForMoney"
       /\ extended_state = [coincounter |-> 1, opened |-> 1, closed |-> 1]

\* the end of coin_machine_test
C18_Witness ==
  /\ script.test = "done"
  /\ IsProcess
  /\ before.event_queue = << <<"Timeout", "None">> >>
  /\ before.current_state = "OpenWaitForTimeOut"

\* the hooks that ran in the last call
HooksRan ==
  { j \in 1..Len(trace) : trace[j].kind \in {"EntryTransition", "ExitTransition"} }
\* the one hook that ran in the last call was dir of state s
OnlyHook(s, dir) ==
  /\ Cardinality(HooksRan) = 1
  /\ \A j \in HooksRan : trace[j].kind = dir /\ trace[j].state = s

\* C19 (good-coin path): on the coin still in ClosedWaitForMoney with an
\* empty queue, add_events([GotCoin(good)]) and one process_event_queue
\* leave the machine in CheckingMoney with exactly AcceptMoney queued; the
\* next process_event_queue leaves it in OpenWaitForTimeOut, the enter hook
\* having run once and opened being 1 higher; after add_events([Timeout])
\* the next process_event_queue leaves it in ClosedWaitForMoney, the exit
\* hook having run once and closed being 1 higher.
C19_GoodCoinPath ==
  /\ script.good = "checking" =>
       /\ current_state = "CheckingMoney"
       /\ event_queue = << <<"AcceptMoney", "None">> >>
  /\ script.good = "open" =>
       /\ current_state = "OpenWaitForTimeOut"
       /\ OnlyHook("OpenWaitForTimeOut", "EntryTransition")
       /\ extended_state.opened = before.extended_state.opened + 1
       /\ extended_state.closed = before.extended_state.closed
  /\ script.good = "closed" =>
       /\ current_state = "ClosedWaitForMoney"
       /\ OnlyHook("OpenWaitForTimeOut", "ExitTransition")
       /\ extended_state.closed = before.extended_state.closed + 1
       /\ extended_state.opened = before.extended_state.opened

\* the end of the good-coin path
C19_Witness ==
  /\ script.good = "closed"
  /\ IsProcess
  /\ result.ok
  /\ before.current_state = "OpenWaitForTimeOut"

\* a handler of the last call emitted exactly RejectMoney
EmittedReject ==
  \E j \in 1..Len(trace) :
    /\ trace[j].kind = "transition"
    /\ EmittedBy(trace[j]) = << <<"RejectMoney", "None">> >>

\* the handler that ran in step k emitted exactly evs
C20_HandlerEmitted(k, evs) ==
  \E j \in Ran(k, "transition") :
    (IF trace[j].res.ok THEN trace[j].res.events ELSE <<>>) = evs
\* the steps of the last call in which GotCoin came up in CheckingMoney
C20_CoinInChecking(args) ==
  { k \in 1..Len(steps) : /\ steps[k].state = "CheckingMoney"
                          /\ wave[k][1] = "GotCoin"
                          /\ wave[k][2] \in args }

C20_WitnessIgnored ==
  /\ IsProcess
  /\ C20_CoinInChecking({"Bad"}) # {}
  /\ C20_CoinInChecking({"Good"}) # {}
  /\ result.ok
  /\ current_state = "CheckingMoney"

\* on the machine build_fsm returns, CheckingMoney is never idle: check_money
\* leaves an event queued whenever it enters the state
C20_CheckingNeverIdle ==
  current_state = "CheckingMoney" => event_queue # <<>>

\* what the node map of the graph covers
HasNode(n) == \E p \in dotgraph.nodes : p[1] = n

\* C21: the exporter never panics: whatever was registered and whatever
\* state2name and event2name are handed to dotfile, every edge of the graph
\* has its source and its target among the nodes, and dotfile returns an
\* error only when the output file could not be created.
C21_ExporterNeverPanics ==
  lastop = "dotfile" =>
    /\ rendered # "panic"
    /\ given[1] # "missing/tmp.dot" =>
         \A e \in Keys(dotgraph.edges) : HasNode(source(e)) /\ HasNode(target(e))
    /\ rendered = "Err" => given[1] = "missing/tmp.dot"

\* the smallest case: one transition registered, no state named
C21_PanicOnUnnamedState ==
  ~(/\ lastop = "dotfile"
    /\ given[1] = "None"
    /\ given[2] = {}
    /\ Cardinality(transitions) = 1
    /\ statetransitions = {}
    /\ rendered = "panic")

\* what does hold: with every state named, as coin_machine_dot names them,
\* the graph is rendered, and the only error is the file that cannot be
\* created
C21_AllStatesNamed ==
  (lastop = "dotfile" /\ Keys(given[2]) = StillStates) =>
    /\ rendered = IF given[1] = "missing/tmp.dot" THEN "Err" ELSE "Ok"
    /\ rendered = "Ok" =>
         \A e \in Keys(dotgraph.edges) : HasNode(source(e)) /\ HasNode(target(e))

\* the entries the table holds under (s, ev)
C22_Table(s, ev) == { p[2] : p \in { q \in transitions : q[1] = <<s, ev>> } }
\* the state the machine is in when the k-th event of the wave comes up:
\* the state at the start of the call, moved to the table target by every
\* earlier event whose handler returned Ok
RECURSIVE C22_Running(_)
C22_Running(k) ==
  IF k = 1 THEN before.current_state
  ELSE LET s == C22_Running(k - 1)
       IN IF \E j \in Ran(k - 1, "transition") : trace[j].res.ok
            THEN (CHOOSE entry \in C22_Table(s, wave[k - 1][1]) : TRUE).endstate
            ELSE s

\* C22 (running state in a wave): each event of a wave is looked up against
\* current_state as the events before it in the same wave left it, not the
\* state at the start of the call, and a NoTransition error raised mid-wave
\* carries that running state and the failing event.
C22_RunningState ==
  IsProcess =>
    \A k \in 1..Len(steps) :
      /\ steps[k].state = C22_Running(k)
      /\ steps[k].trans = C22_Table(C22_Running(k), wave[k][1])
      /\ C22_Table(C22_Running(k), wave[k][1]) = {} =>
           result = [ok |-> FALSE, n |-> 0,
                     err |-> <<"NoTransition", wave[k][1], C22_Running(k)>>]

\* the second event of a wave has an entry for the state the call started
\* in, but none for the state the first event moved the machine to
C22_Witness ==
  /\ IsProcess
  /\ Len(steps) = 2
  /\ steps[2].state # before.current_state
  /\ C22_Table(before.current_state, wave[2][1]) # {}
  /\ result = [ok |-> FALSE, n |-> 0,
               err |-> <<"NoTransition", wave[2][1], steps[2].state>>]

\* the events the closure of the given kind returned in step k
C23_EmittedOf(k, kind) ==
  IF Ran(k, kind) = {} THEN <<>>
  ELSE LET j == CHOOSE x \in Ran(k, kind) : TRUE
       IN IF trace[j].res.ok THEN trace[j].res.events ELSE <<>>
\* for each processed event from the k-th on: exit hook's events, handler's
\* events, enter hook's events
RECURSIVE C23_Emission(_)
C23_Emission(k) ==
  IF k > Len(steps) THEN <<>>
  ELSE C23_EmittedOf(k, "ExitTransition") \o C23_EmittedOf(k, "transition")
         \o C23_EmittedOf(k, "EntryTransition") \o C23_Emission(k + 1)

\* C23 (queue content after a wave): when process_event_queue returns, with
\* Ok or Err, the queue holds exactly the events emitted during the call, in
\* emission order: per processed event in wave order the exit hook's events,
\* then the handler's, then the enter hook's; events_pending() is true iff
\* that sequence is not empty.
C23_QueueAfterWave ==
  IsProcess =>
    /\ Len(steps) <= Len(before.event_queue)
    /\ \A k \in 1..Len(steps) :
         <<steps[k].event, steps[k].arg>> = before.event_queue[k]
    /\ event_queue = C23_Emission(1)
    /\ events_pending <=> C23_Emission(1) # <<>>
    /\ \A k \in 1..Len(steps) :
         \A kind \in {"ExitTransition", "transition", "EntryTransition"} :
           Cardinality(Ran(k, kind)) <= 1

\* a call that returned Err after the exit hook, the handler and the enter
\* hook of its first event had emitted three different events
C23_Witness ==
  /\ IsProcess
  /\ ~result.ok
  /\ Len(event_queue) = 3
  /\ event_queue[1] # event_queue[2]
  /\ event_queue[2] # event_queue[3]
  /\ event_queue[1] # event_queue[3]
  /\ C23_EmittedOf(1, "ExitTransition") = <<event_queue[1]>>
  /\ C23_EmittedOf(1, "transition") = <<event_queue[2]>>
  /\ C23_EmittedOf(1, "EntryTransition") = <<event_queue[3]>>

\* a call in which two events of the wave emitted different events: the
\* handler of the first, the exit hook of the second
C23_WitnessTwoSteps ==
  /\ IsProcess
  /\ result.ok
  /\ Len(steps) = 2
  /\ Len(event_queue) = 2
  /\ event_queue[1] # event_queue[2]
  /\ C23_EmittedOf(1, "transition") = <<event_queue[1]>>
  /\ C23_EmittedOf(2, "ExitTransition") = <<event_queue[2]>>

\* a call on a pending queue that left nothing pending
C23_WitnessIdle ==
  /\ IsProcess
  /\ Len(before.event_queue) >= 1
  /\ ~events_pending

\* how many closures of the given kind the last call invoked
C24_Invoked(kind) == Cardinality({ j \in 1..Len(trace) : trace[j].kind = kind })

\* C24 (bounded call): process_event_queue returns after at most n handler
\* invocations, n exit-hook invocations and n enter-hook invocations, n being
\* the queue length at the start of the call, even when handlers and hooks
\* emit new events.
C24_BoundedCall ==
  IsProcess =>
    /\ Len(steps) <= Len(before.event_queue)
    /\ C24_Invoked("transition") <= Len(before.event_queue)
    /\ C24_Invoked("ExitTransition") <= Len(before.event_queue)
    /\ C24_Invoked("EntryTransition") <= Len(before.event_queue)

\* two events queued, both handlers ran, one of them emitted, and the call
\* returned with the emitted event still pending
C24_Witness ==
  /\ IsProcess
  /\ Len(before.event_queue) = 2
  /\ C24_Invoked("transition") = 2
  /\ \E j \in 1..Len(trace) : trace[j].res.ok /\ trace[j].res.events # <<>>
  /\ result = [ok |-> TRUE, n |-> 2, err |-> <<"OK">>]
  /\ event_queue # <<>>

\* C25 (exclusive access): during process_event_queue at most one mutable
\* borrow of the extended state is outstanding at any time: the borrow handed
\* to an exit hook, a handler or an enter hook is released before the next
\* one is taken, so no borrow_mut finds the state already borrowed.
C25_ExclusiveAccess ==
  IsProcess =>
    /\ \A b \in 1..Len(borrows) : borrows[b].held = 0
    /\ \A j \in 1..Len(trace) :
         \E b \in 1..Len(borrows) :
           borrows[b].idx = trace[j].idx /\ borrows[b].for = trace[j].kind
    /\ \A a, b \in 1..Len(borrows) : a < b => borrows[a].idx <= borrows[b].idx

\* a call of two events in which an exit hook, a handler and an enter hook
\* took the extended state one after the other, and the next event's handler
\* after them
C25_Witness ==
  /\ IsProcess
  /\ Len(steps) = 2
  /\ Len(borrows) >= 4
  /\ \A kind \in {"ExitTransition", "transition", "EntryTransition"} :
       \E j \in 1..Len(trace) : trace[j].idx = 1 /\ trace[j].kind = kind
  /\ \E j \in 1..Len(trace) : trace[j].idx = 2 /\ trace[j].kind = "transition"

\* every closure of the call returned Ok, every event of the wave was
\* processed and left the machine at its table target
C26_AllSucceeded ==
  /\ \A j \in 1..Len(trace) : trace[j].res.ok
  /\ Len(steps) = Len(wave)
  /\ \A k \in 1..Len(steps) :
       /\ Entries(k) # {}
       /\ \A entry \in Entries(k) : StateAfterStep(k) = entry.endstate
\* every closure that returned Err, whatever the error value, was the last
\* thing the call ran, and the call returned Err
C26_ErrStops ==
  \A j \in 1..Len(trace) :
    ~trace[j].res.ok => (~result.ok /\ j = Len(trace))

\* C26 (Ok means every step succeeded): process_event_queue returns Ok(n)
\* only if every handler and hook invoked during the call returned Ok and
\* current_state was set to the table target for each of the n events;
\* whenever a handler or hook returns Err, whatever the error value
\* (Errors::OK included), the call returns Err and the later steps of that
\* event are not run.
C26_OkMeansSuccess ==
  IsProcess =>
    /\ result.ok => C26_AllSucceeded
    /\ C26_ErrStops

\* what does hold: the same, as long as no closure returned Err(Errors::OK)
C26_UnlessErrOK ==
  (IsProcess /\ \A j \in 1..Len(trace) : trace[j].res.err = <<"OK">> => trace[j].res.ok)
  => /\ result.ok => C26_AllSucceeded
     /\ C26_ErrStops

\* a lone event whose handler returned Err(Errors::OK): the call returned
\* Ok(1) and the machine did not move
C26_HandlerErrOK ==
  ~(/\ IsProcess
    /\ Len(wave) = 1
    /\ \E j \in 1..Len(trace) :
         /\ trace[j].kind = "transition"
         /\ trace[j].res = [ok |-> FALSE, some |-> FALSE, events |-> <<>>, err |-> <<"OK">>]
    /\ result = [ok |-> TRUE, n |-> 1, err |-> <<"OK">>]
    /\ current_state = before.current_state)

\* the exit hook of step k ran and returned Ok, its handler ran and failed
C27_ExitOkHandlerFailed(k) ==
  /\ \E j \in Ran(k, "ExitTransition") : trace[j].res.ok
  /\ \E j \in Ran(k, "transition") :
       ~trace[j].res.ok /\ trace[j].res.err # <<"OK">>
\* the events the exit hook of step k returned
C27_ExitEvents(k) ==
  trace[CHOOSE j \in Ran(k, "ExitTransition") : TRUE].res.events
\* the counter the exit hooks of the model count in, as the hooks that ran
\* must have left it
C27_Closed ==
  before.extended_state.closed
    + Cardinality({ j \in 1..Len(trace) :
                      /\ trace[j].kind = "ExitTransition"
                      /\ trace[j].fn \in {"count_emit", "CountClose"} })

\* C27 (exit hook effects survive a failed handler): when the Exit hook of
\* the current state succeeds and the handler then fails, the events the
\* Exit hook emitted stay in the queue (they are its last events) and its
\* extended-state changes are kept, while current_state is the state the
\* event was looked up in and the Enter hook is not run.
C27_ExitEffectsSurvive ==
  IsProcess =>
    \A k \in 1..Len(steps) :
      C27_ExitOkHandlerFailed(k) =>
        /\ Len(event_queue) >= Len(C27_ExitEvents(k))
        /\ SubSeq(event_queue, Len(event_queue) - Len(C27_ExitEvents(k)) + 1,
                  Len(event_queue)) = C27_ExitEvents(k)
        /\ extended_state.closed = C27_Closed
        /\ current_state = steps[k].state
        /\ Ran(k, "EntryTransition") = {}
        /\ ~result.ok

\* an exit hook counted and emitted, then the handler failed
C27_Witness ==
  /\ IsProcess
  /\ \E k \in 1..Len(steps) :
       /\ C27_ExitOkHandlerFailed(k)
       /\ C27_ExitEvents(k) # <<>>
  /\ extended_state.closed > before.extended_state.closed
  /\ event_queue # <<>>

\* the events the still's closures emit
C28_Emitted == { <<"AcceptMoney", "None">>, <<"RejectMoney", "None">> }

\* C28 (coin machine drain terminates): on the machine build_fsm returns,
\* from any reachable state and queue, once the caller stops enqueuing the
\* loop `while events_pending() { process_event_queue() }` ends after at most
\* two process calls: after the first only events the closures emitted are
\* pending, and their handlers emit nothing.
C28_CoinDrain ==
  /\ script.drains <= 2
  /\ script.drains = 2 => event_queue = <<>>
  /\ script.drains = 1 =>
       \A n \in 1..Len(event_queue) : event_queue[n] \in C28_Emitted

\* the loop took its two calls: the first left an emitted event pending, the
\* second emptied the queue
C28_Witness ==
  /\ script.drains = 2
  /\ IsProcess
  /\ Len(before.event_queue) >= 1
  /\ event_queue = <<>>

\* the loop ended after one call on a queue of two events
C28_WitnessOne ==
  /\ script.drains = 1
  /\ IsProcess
  /\ Len(before.event_queue) = 2
  /\ event_queue = <<>>

====
